---- MODULE Spec2Model ----
(***************************************************************************)
(* db_manager_app.py: a SQLite-backed access layer (schema/seed            *)
(* initializer, generic reads, generic insert, delivery upsert) run by     *)
(* concurrent request handlers, each on its own connection.                *)
(*                                                                         *)
(* A row is a function from the names of its non-NULL columns to their     *)
(* values (a column outside the row's DOMAIN is NULL).  A payload is a     *)
(* Python dict: `keys` are its keys, `vals` maps the keys whose value is   *)
(* not None to that value.                                                 *)
(*                                                                         *)
(* The store is SQLite in its default journal mode, driven by sqlite3's    *)
(* implicit transactions: a SELECT runs outside any transaction and reads  *)
(* the committed store; the first INSERT/UPDATE of a connection opens the  *)
(* single write transaction, whose rows stay private until commit; a       *)
(* second writer waits for it (the busy timeout is taken not to expire).   *)
(***************************************************************************)
EXTENDS Integers, Sequences, FiniteSets, TLC

\* Number of concurrent handler threads / service instances.
NProcs == 2
\* Number of operations started in one behaviour.
MaxCalls == 3

Procs == 1..NProcs

VARIABLES
    db,         \* committed store: table name -> sequence of rows
    hasItemId,  \* whether "order" has the additive item_id column
    writer,     \* process holding the store's write transaction, 0 if none
    pending,    \* the writer's uncommitted view of the store
    booted,     \* an init_db run has completed (app.run was reached)
    pc,         \* per process: position in its current operation
    op,         \* per process: the current operation and its arguments
    found,      \* per process: row fetched by the upsert's SELECT (<<>> if none)
    result,     \* per process: what the last operation returned
    conn,       \* per process: "none" | "open" | "closed"
    seedIdx,    \* per process: index in TableOrder of the table init_db is at
    calls,      \* operations started so far
    db0,        \* history: the store before the first init_db
    base,       \* history: the delivery table when handlers became available
    submitted,  \* history: delivery key -> sum of quantities submitted
    acked       \* history: delivery key -> sum of quantities of successful calls

vars == <<db, hasItemId, writer, pending, booted, pc, op, found, result, conn,
          seedIdx, calls, db0, base, submitted, acked>>

-----------------------------------------------------------------------------
(* Schema: src/db_manager_app.py lines 23-69 *)

Tables == {"customer", "seller", "catalog", "order", "order_item", "delivery"}

\* Seeding order of init_db.
TableOrder == <<"customer", "seller", "catalog", "order", "order_item", "delivery">>

Columns(t, item) ==
    CASE t = "customer"   -> {"id", "name"}
      [] t = "seller"     -> {"id", "nation"}
      [] t = "catalog"    -> {"id", "name", "color"}
      [] t = "order"      -> {"id", "customer_id", "date"}
                               \cup (IF item THEN {"item_id"} ELSE {})
      [] t = "order_item" -> {"order_id", "catalog_id", "quantity"}
      [] t = "delivery"   -> {"seller_id", "catalog_id", "quantity"}

NotNull(t) ==
    CASE t = "customer"   -> {"name"}
      [] t = "seller"     -> {"nation"}
      [] t = "catalog"    -> {"name", "color"}
      [] t = "order"      -> {"customer_id", "date"}
      [] t = "order_item" -> {"order_id", "catalog_id", "quantity"}
      [] t = "delivery"   -> {"seller_id", "catalog_id", "quantity"}

PrimaryKey(t) ==
    CASE t = "order_item" -> {"order_id", "catalog_id"}
      [] t = "delivery"   -> {"seller_id", "catalog_id"}
      [] OTHER            -> {"id"}

\* INTEGER PRIMARY KEY: a NULL id is replaced by the next rowid.
HasRowid(t) == PrimaryKey(t) = {"id"}

-----------------------------------------------------------------------------
(* Seed data: src/db_manager_app.py lines 83-132 *)

Seed(t) ==
    CASE t = "customer"   -> << [id |-> 1, name |-> "Alice"],
                                [id |-> 2, name |-> "Bob"],
                                [id |-> 3, name |-> "Carol"] >>
      [] t = "seller"     -> << [id |-> 1, nation |-> "Italy"],
                                [id |-> 2, nation |-> "France"] >>
      [] t = "catalog"    -> << [id |-> 1, name |-> "T-Shirt", color |-> "red"],
                                [id |-> 2, name |-> "T-Shirt", color |-> "blue"],
                                [id |-> 3, name |-> "Shoes", color |-> "black"] >>
      [] t = "order"      -> << [id |-> 1, customer_id |-> 1, date |-> "2026-02-01", item_id |-> 1],
                                [id |-> 2, customer_id |-> 2, date |-> "2026-02-02", item_id |-> 2] >>
      [] t = "order_item" -> << [order_id |-> 1, catalog_id |-> 1, quantity |-> 2],
                                [order_id |-> 1, catalog_id |-> 3, quantity |-> 1],
                                [order_id |-> 2, catalog_id |-> 2, quantity |-> 1] >>
      [] t = "delivery"   -> << [seller_id |-> 1, catalog_id |-> 1, quantity |-> 100],
                                [seller_id |-> 1, catalog_id |-> 2, quantity |-> 50],
                                [seller_id |-> 2, catalog_id |-> 3, quantity |-> 70] >>

-----------------------------------------------------------------------------
(* The store's statements, as SQLite executes them. *)

NoError == "ok"

Max(S) == CHOOSE x \in S : \A y \in S : y <= x

\* Two rows agree on every column of `cols`, none of them NULL.
SameKey(r1, r2, cols) ==
    /\ cols \subseteq DOMAIN r1
    /\ cols \subseteq DOMAIN r2
    /\ \A c \in cols : r1[c] = r2[c]

\* The row a statement stores: a NULL INTEGER PRIMARY KEY gets the next rowid.
StoredRow(rows, t, vals) ==
    IF HasRowid(t) /\ "id" \notin DOMAIN vals
    THEN ("id" :> (IF rows = <<>> THEN 1
                   ELSE Max({rows[i]["id"] : i \in 1..Len(rows)}) + 1)) @@ vals
    ELSE vals

\* InsertError for tables declared without their PRIMARY KEY.
InsertError_noPrimaryKey(rows, t, payload, item) ==
    IF ~(payload.keys \subseteq Columns(t, item))
    THEN "no such column"
    ELSE IF ~(NotNull(t) \subseteq DOMAIN StoredRow(rows, t, payload.vals))
    THEN "NOT NULL constraint failed"
    ELSE NoError

\* The diagnostic of INSERT INTO t (keys) VALUES (vals), NoError if accepted.
InsertError(rows, t, payload, item) ==
    IF ~(payload.keys \subseteq Columns(t, item))
    THEN "no such column"
    ELSE LET row == StoredRow(rows, t, payload.vals) IN
         IF ~(NotNull(t) \subseteq DOMAIN row)
         THEN "NOT NULL constraint failed"
         ELSE IF \E i \in 1..Len(rows) : SameKey(rows[i], row, PrimaryKey(t))
         THEN "UNIQUE constraint failed"
         ELSE NoError

\* INSERT INTO t (keys) VALUES (vals): [err, rows]; a rejected statement
\* leaves the table as it was.
SqlInsert(rows, t, payload, item) ==
    LET err == InsertError(rows, t, payload, item) IN
    [err  |-> err,
     rows |-> IF err = NoError
              THEN Append(rows, StoredRow(rows, t, payload.vals))
              ELSE rows]

\* The rows SELECT quantity FROM delivery WHERE seller_id = ? AND catalog_id = ?
\* yields, first one fetched: <<row>> or <<>>.  A NULL parameter matches nothing.
SqlSelectDelivery(rows, vals) ==
    LET hit == SelectSeq(rows, LAMBDA r : SameKey(r, vals, {"seller_id", "catalog_id"}))
    IN IF hit = <<>> THEN <<>> ELSE <<hit[1]>>

\* SqlUpdateAdd as UPDATE delivery SET quantity = ?: the row is overwritten.
SqlUpdateAdd_overwrite(rows, vals) ==
    LET match(r) == SameKey(r, vals, {"seller_id", "catalog_id"})
        any      == \E i \in 1..Len(rows) : match(rows[i])
    IN IF any /\ "quantity" \notin DOMAIN vals
       THEN [err |-> "NOT NULL constraint failed", rows |-> rows]
       ELSE [err  |-> NoError,
             rows |-> [i \in 1..Len(rows) |->
                         IF match(rows[i])
                         THEN [rows[i] EXCEPT !["quantity"] = vals["quantity"]]
                         ELSE rows[i]]]

\* UPDATE delivery SET quantity = quantity + ? WHERE seller_id = ? AND
\* catalog_id = ?: [err, rows].  quantity + NULL is NULL, which the NOT NULL
\* column rejects.
SqlUpdateAdd(rows, vals) ==
    LET match(r) == SameKey(r, vals, {"seller_id", "catalog_id"})
        any      == \E i \in 1..Len(rows) : match(rows[i])
    IN IF any /\ "quantity" \notin DOMAIN vals
       THEN [err |-> "NOT NULL constraint failed", rows |-> rows]
       ELSE [err  |-> NoError,
             rows |-> [i \in 1..Len(rows) |->
                         IF match(rows[i])
                         THEN [rows[i] EXCEPT !["quantity"] = @ + vals["quantity"]]
                         ELSE rows[i]]]

\* executemany(INSERT ...): the rows one statement at a time, stopping at the
\* first one the store rejects (the earlier rows stay in the transaction).
RECURSIVE SqlInsertMany(_, _, _, _)
SqlInsertMany(rows, t, seeds, item) ==
    IF seeds = <<>> THEN [err |-> NoError, rows |-> rows]
    ELSE LET r == SqlInsert(rows, t, [keys |-> DOMAIN Head(seeds), vals |-> Head(seeds)], item)
         IN IF r.err # NoError THEN r
            ELSE SqlInsertMany(r.rows, t, Tail(seeds), item)

\* table_empty that looks at the first table only ("if database is empty").
table_empty_database(store, t) == Len(store["customer"]) = 0

\* SELECT COUNT(*) AS c FROM t ... == 0
table_empty(store, t) == Len(store[t]) = 0

-----------------------------------------------------------------------------
(* What an operation hands back. *)

NoResult == [status |-> "none", ok |-> FALSE, msg |-> ""]

Returned(ok, msg) == [status |-> "returned", ok |-> ok, msg |-> msg]

\* An exception leaving the operation.
Raised(msg) == [status |-> "raised", ok |-> FALSE, msg |-> msg]

\* ExceptResult that drops the exception's text.
ExceptResult_generic(exc) == Returned(FALSE, "error")

\* except sqlite3.Error as exc: ... return False, str(exc)
ExceptResult(exc) == Returned(FALSE, exc)

\* The messages SQLite gives for a rejected statement.
StoreDiagnostics ==
    {"no such column", "NOT NULL constraint failed", "UNIQUE constraint failed",
     "duplicate column name"}

-----------------------------------------------------------------------------
(* Payloads *)

Dict(f) == [keys |-> DOMAIN f, vals |-> f]

\* A dict with f's entries plus the keys `none`, each mapped to None.
DictWithNone(f, none) == [keys |-> DOMAIN f \cup none, vals |-> f]

EmptyDict == [keys |-> {}, vals |-> <<>>]

required == {"seller_id", "catalog_id", "quantity"}

\* not payload
EmptyPayload(payload) == payload.keys = {}

\* HasRequired that checks the key columns only.
HasRequired_keysOnly(payload) == {"seller_id", "catalog_id"} \subseteq payload.keys

\* required.issubset(payload)
HasRequired(payload) == required \subseteq payload.keys

\* The (seller_id, catalog_id, quantity) parameters bound from the payload.
DeliveryParams(payload) ==
    [keys |-> required,
     vals |-> [c \in required \cap DOMAIN payload.vals |-> payload.vals[c]]]

NoOp == [kind |-> "none", table |-> "", payload |-> EmptyDict, id |-> 0, column |-> ""]

MkOp(kind, t, payload, id, column) ==
    [kind |-> kind, table |-> t, payload |-> payload, id |-> id, column |-> column]

-----------------------------------------------------------------------------
(* Inputs *)

\* Stores an instance may find at start-up: a new file, a file of an older
\* version ("order" without item_id) with or without rows of its own.
OtherRows(t) ==
    CASE t = "customer"   -> << [id |-> 7, name |-> "Zoe"] >>
      [] t = "seller"     -> << [id |-> 5, nation |-> "Spain"] >>
      [] t = "catalog"    -> << [id |-> 8, name |-> "Hat", color |-> "green"] >>
      [] t = "order"      -> << [id |-> 4, customer_id |-> 7, date |-> "2025-12-31"] >>
      [] t = "order_item" -> << [order_id |-> 4, catalog_id |-> 8, quantity |-> 6] >>
      [] t = "delivery"   -> << [seller_id |-> 9, catalog_id |-> 9, quantity |-> 3] >>

EmptyStore == [t \in Tables |-> <<>>]

SeededStore == [t \in Tables |-> Seed(t)]

\* (table, payload) pairs handed to insert_row.
InsertInputs ==
    { <<"customer",   EmptyDict>>,
      <<"customer",   Dict([name |-> "Dave"])>>,
      <<"catalog",    Dict([id |-> 4, name |-> "Hat", colour |-> "green"])>>,
      <<"order_item", Dict([order_id |-> 1, catalog_id |-> 1, quantity |-> 5])>>,
      <<"order_item", Dict([order_id |-> 2, catalog_id |-> 1, quantity |-> 4])>>,
      <<"order_item", DictWithNone([order_id |-> 2, catalog_id |-> 3], {"quantity"})>> }

\* Payloads handed to insert_or_add_delivery.
UpsertInputs ==
    { Dict([seller_id |-> 1, catalog_id |-> 1, quantity |-> 50]),
      Dict([seller_id |-> 9, catalog_id |-> 9, quantity |-> -7]),
      Dict([seller_id |-> 1, catalog_id |-> 1]),
      DictWithNone([seller_id |-> 1, catalog_id |-> 1], {"quantity"}) }

\* Arguments of the reads.
GetAllInputs == {"delivery"}

GetByIdInputs == {<<"customer", 1>>, <<"customer", 9999>>}

GetColumnInputs == {<<"customer", "name">>, <<"customer", "quantity">>}

-----------------------------------------------------------------------------
(* Helpers on the state *)

Idle(p) == pc[p] \in {"idle", "done", "raised"}

\* What p's connection reads: its own transaction, or the committed store.
View(p) == IF writer = p THEN pending ELSE db

DeliveryKey(payload) == <<payload.vals["seller_id"], payload.vals["catalog_id"]>>

\* The payload carries non-NULL seller_id, catalog_id and quantity.
Countable(payload) == required \subseteq DOMAIN payload.vals

AddTo(f, k, q) ==
    IF k \in DOMAIN f THEN [f EXCEPT ![k] = @ + q] ELSE (k :> q) @@ f

SumOf(f, k) == IF k \in DOMAIN f THEN f[k] ELSE 0

Quantity(rows, k) ==
    LET hit == SelectSeq(rows, LAMBDA r :
                   SameKey(r, [seller_id |-> k[1], catalog_id |-> k[2]],
                           {"seller_id", "catalog_id"}))
    IN IF hit = <<>> THEN 0 ELSE hit[1]["quantity"]

RowsFor(rows, k) ==
    Len(SelectSeq(rows, LAMBDA r :
            SameKey(r, [seller_id |-> k[1], catalog_id |-> k[2]],
                    {"seller_id", "catalog_id"})))

\* The operation starts: p leaves its previous result behind.
Begin(p, o, next, c, res) ==
    /\ Idle(p)
    /\ calls < MaxCalls
    /\ calls' = calls + 1
    /\ op' = [op EXCEPT ![p] = o]
    /\ pc' = [pc EXCEPT ![p] = next]
    /\ conn' = [conn EXCEPT ![p] = c]
    /\ result' = [result EXCEPT ![p] = res]
    /\ found' = [found EXCEPT ![p] = <<>>]

\* The operation ends with `res`; its connection is left in state c.
Finish(p, res, c) ==
    /\ pc' = [pc EXCEPT ![p] = IF res.status = "raised" THEN "raised" ELSE "done"]
    /\ result' = [result EXCEPT ![p] = res]
    /\ conn' = [conn EXCEPT ![p] = c]

-----------------------------------------------------------------------------
(* init_db: src/db_manager_app.py lines 17-135 *)

\* get_connection, cursor, executescript(CREATE TABLE IF NOT EXISTS ...).
\* The tables that exist are left as they are.
InitDbStart(p) ==
    /\ Begin(p, MkOp("init_db", "", EmptyDict, 0, ""), "init_pragma", "open", NoResult)
    /\ seedIdx' = [seedIdx EXCEPT ![p] = 1]
    /\ UNCHANGED <<db, hasItemId, writer, pending, booted, db0, base, submitted, acked>>

\* PRAGMA table_info("order"); if "item_id" not in columns
InitDbPragma(p) ==
    /\ pc[p] = "init_pragma"
    /\ pc' = [pc EXCEPT ![p] = IF hasItemId THEN "init_check" ELSE "init_alter"]
    /\ UNCHANGED <<db, hasItemId, writer, pending, booted, op, found, result, conn,
                   seedIdx, calls, db0, base, submitted, acked>>

\* ALTER TABLE "order" ADD COLUMN item_id INTEGER.  The store rejects it when
\* another instance has added the column since the PRAGMA; nothing catches that.
InitDbAlter(p) ==
    /\ pc[p] = "init_alter"
    /\ writer = 0
    /\ IF hasItemId
       THEN /\ Finish(p, Raised("duplicate column name"), conn[p])
            /\ UNCHANGED hasItemId
       ELSE /\ hasItemId' = TRUE
            /\ pc' = [pc EXCEPT ![p] = "init_check"]
            /\ UNCHANGED <<result, conn>>
    /\ UNCHANGED <<db, writer, pending, booted, op, found, seedIdx, calls, db0, base,
                   submitted, acked>>

\* Where init_db goes after the table at index i.
AfterTable(i) == IF i = Len(TableOrder) THEN "init_commit" ELSE "init_check"

\* if table_empty(t):
InitDbCheck(p) ==
    /\ pc[p] = "init_check"
    /\ IF table_empty(View(p), TableOrder[seedIdx[p]])
       THEN /\ pc' = [pc EXCEPT ![p] = "init_seed"]
            /\ UNCHANGED seedIdx
       ELSE /\ pc' = [pc EXCEPT ![p] = AfterTable(seedIdx[p])]
            /\ seedIdx' = [seedIdx EXCEPT ![p] = IF @ = Len(TableOrder) THEN @ ELSE @ + 1]
    /\ UNCHANGED <<db, hasItemId, writer, pending, booted, op, found, result, conn,
                   calls, db0, base, submitted, acked>>

\* cur.executemany("INSERT INTO t ...", seed rows).  The first INSERT opens the
\* write transaction; a rejected row raises out of init_db, which ends the
\* instance and with it the uncommitted transaction.
InitDbSeed(p) ==
    /\ pc[p] = "init_seed"
    /\ writer \in {0, p}
    /\ LET t == TableOrder[seedIdx[p]]
           r == SqlInsertMany(View(p)[t], t, Seed(t), hasItemId)
       IN IF r.err = NoError
          THEN /\ pending' = [View(p) EXCEPT ![t] = r.rows]
               /\ writer' = p
               /\ pc' = [pc EXCEPT ![p] = AfterTable(seedIdx[p])]
               /\ seedIdx' = [seedIdx EXCEPT ![p] = IF @ = Len(TableOrder) THEN @ ELSE @ + 1]
               /\ UNCHANGED <<result, conn>>
          ELSE /\ pending' = db
               /\ writer' = 0
               /\ Finish(p, Raised(r.err), conn[p])
               /\ UNCHANGED seedIdx
    /\ UNCHANGED <<db, hasItemId, booted, op, found, calls, db0, base, submitted, acked>>

\* conn.commit(); conn.close().  With no row seeded there is no transaction
\* and the commit changes nothing.
InitDbCommit(p) ==
    /\ pc[p] = "init_commit"
    /\ db' = View(p)
    /\ writer' = IF writer = p THEN 0 ELSE writer
    /\ booted' = TRUE
    /\ base' = IF booted THEN base ELSE View(p)["delivery"]
    /\ Finish(p, Returned(TRUE, "None"), "closed")
    /\ UNCHANGED <<hasItemId, pending, op, found, seedIdx, calls, db0, submitted, acked>>

-----------------------------------------------------------------------------
(* Reads: src/db_manager_app.py lines 145-169.  Each is one statement on a
   connection of its own; the rows read are not kept in the state. *)

get_all(p, t) ==
    /\ booted
    /\ Begin(p, MkOp("get_all", t, EmptyDict, 0, ""), "done", "closed",
             Returned(TRUE, "rows"))
    /\ UNCHANGED <<db, hasItemId, writer, pending, booted, seedIdx, db0, base,
                   submitted, acked>>

\* SELECT * FROM t WHERE id = ?: the store rejects it when t has no id
\* column; the exception leaves the function before conn.close().
get_by_id(p, t, id) ==
    /\ booted
    /\ IF "id" \in Columns(t, hasItemId)
       THEN Begin(p, MkOp("get_by_id", t, EmptyDict, id, ""), "done", "closed",
                  Returned(TRUE, IF \E i \in 1..Len(db[t]) : db[t][i]["id"] = id
                                 THEN "row" ELSE "None"))
       ELSE Begin(p, MkOp("get_by_id", t, EmptyDict, id, ""), "raised", "open",
                  Raised("no such column"))
    /\ UNCHANGED <<db, hasItemId, writer, pending, booted, seedIdx, db0, base,
                   submitted, acked>>

\* SELECT column FROM t
get_column_values(p, t, column) ==
    /\ booted
    /\ IF column \in Columns(t, hasItemId)
       THEN Begin(p, MkOp("get_column_values", t, EmptyDict, 0, column), "done",
                  "closed", Returned(TRUE, "values"))
       ELSE Begin(p, MkOp("get_column_values", t, EmptyDict, 0, column), "raised",
                  "open", Raised("no such column"))
    /\ UNCHANGED <<db, hasItemId, writer, pending, booted, seedIdx, db0, base,
                   submitted, acked>>

-----------------------------------------------------------------------------
(* insert_row: src/db_manager_app.py lines 172-194 *)

\* if not payload: return False, "Empty payload"; else get_connection()
insert_row(p, t, payload) ==
    /\ booted
    /\ IF EmptyPayload(payload)
       THEN Begin(p, MkOp("insert_row", t, payload, 0, ""), "done", "none",
                  Returned(FALSE, "Empty payload"))
       ELSE Begin(p, MkOp("insert_row", t, payload, 0, ""), "ir_exec", "open", NoResult)
    /\ UNCHANGED <<db, hasItemId, writer, pending, booted, seedIdx, db0, base,
                   submitted, acked>>

\* cur.execute(INSERT ...): accepted, the row waits in p's transaction for the
\* commit; rejected, the except branch rolls back, closes and returns.
InsertRowExec(p) ==
    /\ pc[p] = "ir_exec"
    /\ writer = 0
    /\ LET t == op[p].table
           r == SqlInsert(db[t], t, op[p].payload, hasItemId)
       IN IF r.err = NoError
          THEN /\ pending' = [db EXCEPT ![t] = r.rows]
               /\ writer' = p
               /\ pc' = [pc EXCEPT ![p] = "ir_commit"]
               /\ UNCHANGED <<result, conn>>
          ELSE /\ Finish(p, ExceptResult(r.err), "closed")
               /\ UNCHANGED <<pending, writer>>
    /\ UNCHANGED <<db, hasItemId, booted, op, found, seedIdx, calls, db0, base,
                   submitted, acked>>

\* conn.commit(); conn.close(); return True, "inserted"
InsertRowCommit(p) ==
    /\ pc[p] = "ir_commit"
    /\ writer = p
    /\ db' = pending
    /\ writer' = 0
    /\ Finish(p, Returned(TRUE, "inserted"), "closed")
    /\ UNCHANGED <<hasItemId, pending, booted, op, found, seedIdx, calls, db0, base,
                   submitted, acked>>

-----------------------------------------------------------------------------
(* insert_or_add_delivery: src/db_manager_app.py lines 197-240 *)

\* if not required.issubset(payload): return False, ...; else get_connection()
insert_or_add_delivery(p, payload) ==
    /\ booted
    /\ IF ~HasRequired(payload)
       THEN /\ Begin(p, MkOp("insert_or_add_delivery", "delivery", payload, 0, ""),
                     "done", "none",
                     Returned(FALSE, "seller_id, catalog_id and quantity are required"))
            /\ UNCHANGED submitted
       ELSE /\ Begin(p, MkOp("insert_or_add_delivery", "delivery", payload, 0, ""),
                     "up_select", "open", NoResult)
            /\ submitted' = IF Countable(payload)
                            THEN AddTo(submitted, DeliveryKey(payload),
                                       payload.vals["quantity"])
                            ELSE submitted
    /\ UNCHANGED <<db, hasItemId, writer, pending, booted, seedIdx, db0, base, acked>>

\* cur.execute(SELECT quantity FROM delivery WHERE ...); row = cur.fetchone()
UpsertSelect(p) ==
    /\ pc[p] = "up_select"
    /\ found' = [found EXCEPT ![p] = SqlSelectDelivery(db["delivery"], op[p].payload.vals)]
    /\ pc' = [pc EXCEPT ![p] = "up_write"]
    /\ UNCHANGED <<db, hasItemId, writer, pending, booted, op, result, conn, seedIdx,
                   calls, db0, base, submitted, acked>>

\* UpsertStatement without the lookup's branch: always the INSERT.
UpsertStatement_insertOnly(rows, row, payload) ==
    SqlInsert(rows, "delivery", DeliveryParams(payload), TRUE)

\* UpsertStatement whose UPDATE stores the quantity the SELECT read plus the
\* submitted one, instead of adding to the stored quantity.
UpsertStatement_absolute(rows, row, payload) ==
    IF row # <<>>
    THEN IF "quantity" \notin DOMAIN payload.vals
         THEN [err |-> "NOT NULL constraint failed", rows |-> rows]
         ELSE [err  |-> NoError,
               rows |-> [i \in 1..Len(rows) |->
                           IF SameKey(rows[i], payload.vals, {"seller_id", "catalog_id"})
                           THEN [rows[i] EXCEPT !["quantity"] =
                                     row[1]["quantity"] + payload.vals["quantity"]]
                           ELSE rows[i]]]
    ELSE SqlInsert(rows, "delivery", DeliveryParams(payload), TRUE)

\* The statement the branch `if row:` picks, run on the store as it is now.
UpsertStatement(rows, row, payload) ==
    IF row # <<>>
    THEN SqlUpdateAdd(rows, payload.vals)
    ELSE SqlInsert(rows, "delivery", DeliveryParams(payload), TRUE)

\* if row: cur.execute(UPDATE ...) else: cur.execute(INSERT ...)
UpsertWrite(p) ==
    /\ pc[p] = "up_write"
    /\ writer = 0
    /\ LET r == UpsertStatement(db["delivery"], found[p], op[p].payload)
       IN IF r.err = NoError
          THEN /\ pending' = [db EXCEPT !["delivery"] = r.rows]
               /\ writer' = p
               /\ pc' = [pc EXCEPT ![p] = "up_commit"]
               /\ UNCHANGED <<result, conn>>
          ELSE /\ Finish(p, ExceptResult(r.err), "closed")
               /\ UNCHANGED <<pending, writer>>
    /\ UNCHANGED <<db, hasItemId, booted, op, found, seedIdx, calls, db0, base,
                   submitted, acked>>

\* conn.commit(); conn.close(); return True, "inserted"
UpsertCommit(p) ==
    /\ pc[p] = "up_commit"
    /\ writer = p
    /\ db' = pending
    /\ writer' = 0
    /\ acked' = IF Countable(op[p].payload)
                THEN AddTo(acked, DeliveryKey(op[p].payload), op[p].payload.vals["quantity"])
                ELSE acked
    /\ Finish(p, Returned(TRUE, "inserted"), "closed")
    /\ UNCHANGED <<hasItemId, pending, booted, op, found, seedIdx, calls, db0, base,
                   submitted>>

-----------------------------------------------------------------------------
(* The service: instances start with init_db, then handlers run concurrently. *)

NoHistory == <<>>

InitLocals ==
    /\ writer = 0
    /\ pending = db
    /\ pc = [p \in Procs |-> "idle"]
    /\ op = [p \in Procs |-> NoOp]
    /\ found = [p \in Procs |-> <<>>]
    /\ result = [p \in Procs |-> NoResult]
    /\ conn = [p \in Procs |-> "none"]
    /\ seedIdx = [p \in Procs |-> 1]
    /\ calls = 0
    /\ db0 = db
    /\ submitted = NoHistory
    /\ acked = NoHistory

\* A store no instance has initialised yet: new, or left by an older version.
Init ==
    /\ \/ db = EmptyStore /\ hasItemId = TRUE
       \/ db = [EmptyStore EXCEPT !["customer"] = OtherRows("customer")] /\ hasItemId = FALSE
    /\ booted = FALSE
    /\ base = <<>>
    /\ InitLocals

Next ==
    \E p \in Procs :
        \/ InitDbStart(p)
        \/ InitDbPragma(p)
        \/ InitDbAlter(p)
        \/ InitDbCheck(p)
        \/ InitDbSeed(p)
        \/ InitDbCommit(p)
        \/ \E t \in GetAllInputs : get_all(p, t)
        \/ \E in \in GetByIdInputs : get_by_id(p, in[1], in[2])
        \/ \E in \in GetColumnInputs : get_column_values(p, in[1], in[2])
        \/ \E in \in InsertInputs : insert_row(p, in[1], in[2])
        \/ InsertRowExec(p)
        \/ InsertRowCommit(p)
        \/ \E payload \in UpsertInputs : insert_or_add_delivery(p, payload)
        \/ UpsertSelect(p)
        \/ UpsertWrite(p)
        \/ UpsertCommit(p)

Spec == Init /\ [][Next]_vars

-----------------------------------------------------------------------------
(* init_db alone, one run after the other, on any store. *)

\* Every combination of empty and populated tables; a store of an older
\* version has no item_id column.
InitStores == [Tables -> {"empty", "rows"}]

InitEach ==
    /\ \E f \in InitStores : db = [t \in Tables |-> IF f[t] = "empty" THEN <<>> ELSE OtherRows(t)]
    /\ hasItemId \in BOOLEAN
    /\ booted = FALSE
    /\ base = <<>>
    /\ InitLocals

Quiet == \A q \in Procs : Idle(q)

NextEach ==
    \E p \in Procs :
        \/ Quiet /\ InitDbStart(p)
        \/ InitDbPragma(p)
        \/ InitDbAlter(p)
        \/ InitDbCheck(p)
        \/ InitDbSeed(p)
        \/ InitDbCommit(p)

SpecInit == InitEach /\ [][NextEach]_vars

-----------------------------------------------------------------------------
(* insert_or_add_delivery alone on a running service. *)

\* Stores of a running service: seeded, seeded but for an empty delivery
\* table, or with a delivery table of its own.
RunningStores ==
    { SeededStore,
      [SeededStore EXCEPT !["delivery"] = <<>>],
      [SeededStore EXCEPT !["delivery"] = OtherRows("delivery")] }

InitRunning ==
    /\ db \in RunningStores
    /\ hasItemId = TRUE
    /\ booted = TRUE
    /\ base = db["delivery"]
    /\ InitLocals

\* Integer submissions, the ones of the spec's examples among them.
SeqInputs ==
    { Dict([seller_id |-> k[1], catalog_id |-> k[2], quantity |-> q]) :
        k \in {<<1, 1>>, <<9, 9>>}, q \in {100, 50, 5, -7} }

\* One call at a time.
NextSeq ==
    \E p \in Procs :
        \/ Quiet /\ \E payload \in SeqInputs : insert_or_add_delivery(p, payload)
        \/ UpsertSelect(p)
        \/ UpsertWrite(p)
        \/ UpsertCommit(p)

SpecSeq == InitRunning /\ [][NextSeq]_vars

\* Key pairs the racing calls may pick.
RaceKeys == {<<9, 9>>, <<2, 1>>, <<1, 3>>}

RacePayload(k) == Dict([seller_id |-> k[1], catalog_id |-> k[2], quantity |-> 1])

\* Every process submits quantity 1 once, all for one key pair that had no row.
NextRace ==
    \E p \in Procs :
        \/ \E k \in RaceKeys :
              /\ pc[p] = "idle"
              /\ RowsFor(base, k) = 0
              /\ \A q \in Procs : op[q].kind # "none" => op[q].payload = RacePayload(k)
              /\ insert_or_add_delivery(p, RacePayload(k))
        \/ UpsertSelect(p)
        \/ UpsertWrite(p)
        \/ UpsertCommit(p)

SpecRace == InitRunning /\ [][NextRace]_vars

-----------------------------------------------------------------------------
(* Properties *)

AccessOps == {"get_all", "get_by_id", "get_column_values", "insert_row",
              "insert_or_add_delivery"}

CompositeTables == {"order_item", "delivery"}

NoDuplicateKeys(rows, cols) ==
    \A i, j \in 1..Len(rows) : SameKey(rows[i], rows[j], cols) => i = j

\* The payload gives a non-NULL value to every NOT NULL column of t and
\* names no other column.
Complete(t, payload) ==
    /\ payload.keys = DOMAIN payload.vals
    /\ payload.keys = NotNull(t)

HasKeyRow(rows, t, vals) == \E i \in 1..Len(rows) : SameKey(rows[i], vals, PrimaryKey(t))

UpsertInFlight == \E p \in Procs : pc[p] \in {"up_select", "up_write", "up_commit"}

DeliveryKeys == {<<1, 1>>, <<9, 9>>, <<2, 1>>, <<1, 3>>}

\* C1: N concurrent insert_or_add_delivery calls with quantity 1 on a key pair
\* that had no row leave exactly one row for the pair, with quantity N.
C1_NoLostUpdate ==
    Quiet =>
        \A k \in DOMAIN submitted :
            /\ RowsFor(db["delivery"], k) = 1
            /\ Quantity(db["delivery"], k) = submitted[k]

\* C2: after sequential insert_or_add_delivery calls with integer quantities,
\* every submitted key pair has exactly one row, whose quantity is the
\* pre-existing quantity plus the sum of everything submitted for the pair
\* (negative quantities included, no floor).
C2_SequentialSum ==
    Quiet =>
        \A k \in DOMAIN submitted :
            /\ RowsFor(db["delivery"], k) = 1
            /\ Quantity(db["delivery"], k) = Quantity(base, k) + submitted[k]

\* upsert(1,1,100) then upsert(1,1,50) on an empty delivery table: one row, 150.
C2_Witness ==
    /\ Quiet
    /\ base = <<>>
    /\ calls = 2
    /\ db["delivery"] = << [seller_id |-> 1, catalog_id |-> 1, quantity |-> 150] >>

\* C3: order_item holds at most one row per (order_id, catalog_id) and delivery
\* at most one row per (seller_id, catalog_id), in the committed store and in
\* every open transaction.
C3_UniqueKeys ==
    \A t \in CompositeTables :
        /\ NoDuplicateKeys(db[t], PrimaryKey(t))
        /\ NoDuplicateKeys(pending[t], PrimaryKey(t))

\* A second write to a composite key was attempted while init_db, insert_row
\* and insert_or_add_delivery had all run.
C3_Witness ==
    /\ booted
    /\ \E p \in Procs :
          /\ pc[p] = "done"
          /\ op[p].table \in CompositeTables
          /\ result[p].msg = "UNIQUE constraint failed"

\* p is at its write statement with a complete payload for a key pair that has
\* a row, and takes the step that runs the statement.
SecondOrderItemWrite(p) ==
    /\ pc[p] = "ir_exec"
    /\ op[p].table = "order_item"
    /\ Complete("order_item", op[p].payload)
    /\ HasKeyRow(db["order_item"], "order_item", op[p].payload.vals)
    /\ pc'[p] # pc[p]

SecondDeliveryWrite(p) ==
    /\ pc[p] = "up_write"
    /\ Countable(op[p].payload)
    /\ HasKeyRow(db["delivery"], "delivery", op[p].payload.vals)
    /\ pc'[p] # pc[p]

\* The statement was accepted and the transaction holds one row for the pair.
MergedNext(p, t) ==
    /\ pc'[p] \in {"ir_commit", "up_commit"}
    /\ Len(SelectSeq(pending'[t], LAMBDA r : SameKey(r, op[p].payload.vals, PrimaryKey(t)))) = 1

C5_SeedsEmptyTablesOnly ==
    /\ \A p \in Procs : pc[p] # "raised"
    /\ (Quiet /\ booted) =>
          \A t \in Tables : db[t] = IF db0[t] = <<>> THEN Seed(t) ELSE db0[t]

\* Two runs have finished on a store whose customer table was empty and whose
\* delivery table was not.
C5_Witness ==
    /\ Quiet
    /\ calls = 2
    /\ db0["customer"] = <<>>
    /\ db0["delivery"] # <<>>
    /\ db["customer"] = Seed("customer")
    /\ db["delivery"] = db0["delivery"]

InvalidCall(o) ==
    \/ o.kind = "insert_row" /\ o.payload.keys = {}
    \/ /\ o.kind = "insert_or_add_delivery"
       /\ {"seller_id", "catalog_id", "quantity"} \ o.payload.keys # {}

\* C6: insert_row with an empty payload and insert_or_add_delivery with a
\* required field absent return (False, message) at once: the call is never
\* at a statement, never opens a connection, and so never touches a table.
C6_ValidationBeforeStore ==
    \A p \in Procs :
        InvalidCall(op[p]) =>
            /\ pc[p] = "done"
            /\ conn[p] = "none"
            /\ writer # p
            /\ result[p] = Returned(FALSE, IF op[p].kind = "insert_row"
                                           THEN "Empty payload"
                                           ELSE "seller_id, catalog_id and quantity are required")

C6_Witness ==
    \E p, q \in Procs :
        /\ op[p].kind = "insert_row" /\ op[p].payload.keys = {}
        /\ op[q].kind = "insert_or_add_delivery"
        /\ "quantity" \notin op[q].payload.keys
        /\ pc[p] = "done" /\ pc[q] = "done"

\* The diagnostic of the statement p is about to run.
StatementError(p) ==
    IF pc[p] = "ir_exec"
    THEN InsertError(db[op[p].table], op[p].table, op[p].payload, hasItemId)
    ELSE IF found[p] # <<>>
         THEN SqlUpdateAdd(db["delivery"], op[p].payload.vals).err
         ELSE InsertError(db["delivery"], "delivery", DeliveryParams(op[p].payload), TRUE)

\* C7: when the store rejects the statement of insert_row or
\* insert_or_add_delivery, the call returns (False, the store's diagnostic)
\* and the committed store and every transaction are as before; the committed
\* store changes only when a call that succeeds commits.
C7_RejectedWriteNoEffect ==
    [][/\ \A p \in Procs :
             (pc[p] \in {"ir_exec", "up_write"} /\ pc'[p] = "done") =>
                 /\ db' = db
                 /\ pending' = pending
                 /\ writer' = writer
                 /\ conn'[p] = "closed"
                 /\ result'[p] = Returned(FALSE, StatementError(p))
                 /\ StatementError(p) \in StoreDiagnostics
       /\ db' # db =>
             \E p \in Procs :
                 /\ pc[p] \in {"ir_commit", "up_commit", "init_commit"}
                 /\ pc'[p] = "done"
                 /\ result'[p].ok
                 /\ db' = pending]_vars

\* Both kinds of write have been rejected by the store.
C7_Witness ==
    \E p, q \in Procs :
        /\ pc[p] = "done" /\ op[p].kind = "insert_row"
        /\ result[p].msg = "UNIQUE constraint failed"
        /\ pc[q] = "done" /\ op[q].kind = "insert_or_add_delivery"
        /\ result[q].msg = "NOT NULL constraint failed"

\* C8: no failure of an access-layer operation leaves it as an exception;
\* each is returned as (False, message).
C8_NoException ==
    \A p \in Procs : op[p].kind \in AccessOps => result[p].status # "raised"

\* C9: when an access-layer operation has ended, by a return or by a store
\* error, the connection it opened is closed.
C9_ConnectionReleased ==
    \A p \in Procs : (op[p].kind \in AccessOps /\ Idle(p)) => conn[p] # "open"

\* C10: once the concurrent insert_or_add_delivery calls have finished, each
\* key pair has at most one row and its quantity is the prior quantity plus
\* the quantities of the calls that returned success; a call whose lookup
\* found the row and whose quantity is an integer succeeds.
C10_AckedSum ==
    /\ (booted /\ ~UpsertInFlight) =>
          \A k \in DeliveryKeys :
              /\ RowsFor(db["delivery"], k) <= 1
              /\ Quantity(db["delivery"], k) = Quantity(base, k) + SumOf(acked, k)
    /\ \A p \in Procs :
          (/\ op[p].kind = "insert_or_add_delivery"
           /\ pc[p] = "done"
           /\ found[p] # <<>>
           /\ Countable(op[p].payload)) => result[p].ok

\* Two calls added 50 each to the seeded (1,1) row.
C10_Witness ==
    /\ \E p, q \in Procs :
          /\ p # q
          /\ \A r \in {p, q} :
                /\ pc[r] = "done"
                /\ op[r].kind = "insert_or_add_delivery"
                /\ found[r] # <<>>
                /\ result[r].ok
    /\ Quantity(base, <<1, 1>>) = 100
    /\ Quantity(db["delivery"], <<1, 1>>) = 200

====
